---- MODULE Spec2Model ----
(***************************************************************************)
(* npm-scripts-tree: the resolver that turns a package manifest's script   *)
(* map into a tree of script entries (references between scripts, pre and  *)
(* post hooks, wildcard references, optional pruning).                     *)
(*                                                                         *)
(* Strings are TLA+ strings; a character is a string of length 1.  A       *)
(* script map (a JavaScript object) is the sequence of its [name, cmd]     *)
(* pairs in Object.keys order.  A JavaScript value read from an object is  *)
(* a record tagged with its type, so that truthiness is modelled as the    *)
(* language defines it.                                                    *)
(***************************************************************************)
EXTENDS Integers, Sequences, FiniteSets, TLC

VARIABLES
  scripts,    \* main's first argument: a script map, or Null
  options,    \* main's second argument: [prune, alpha]
  pc,         \* position inside main
  i,          \* index of the running reduce callback
  extracted,  \* per script name, the local unique(subNames) of getSubNames
  detailed,   \* the entry objects, by Object.keys order (the heap of entries)
  top,        \* keys of the map main holds in detailedScripts
  tree,       \* the value handed to the renderer
  fnArgs,     \* arguments of a direct call of an exported function
  fnRet       \* what that call returned

vars == <<scripts, options, pc, i, extracted, detailed, top, tree, fnArgs, fnRet>>

-----------------------------------------------------------------------------
(* Characters and strings *)

Ch(s, k) == SubSeq(s, k, k)

\* the characters of s from position a to position b, as far as s reaches
Slice(s, a, b) ==
  LET hi == IF b > Len(s) THEN Len(s) ELSE b
  IN IF a > hi THEN "" ELSE SubSeq(s, a, hi)

LOWER == "abcdefghijklmnopqrstuvwxyz"
UPPER == "ABCDEFGHIJKLMNOPQRSTUVWXYZ"
DIGITS == "0123456789"
\* UTF-16 code unit order of the characters the model uses
CODE_ORDER == "\t\n *-./" \o DIGITS \o ":" \o UPPER \o "_" \o LOWER

CharsOf(s) == {Ch(s, k) : k \in 1..Len(s)}

IndexIn(s, c) == CHOOSE k \in 1..Len(s) : Ch(s, k) = c

LowerChars == CharsOf(LOWER)
UpperChars == CharsOf(UPPER)
DigitChars == CharsOf(DIGITS)

ToLowerChar(c) == IF c \in UpperChars THEN Ch(LOWER, IndexIn(UPPER, c)) ELSE c

\* kw, a lower case word, stands at position k of s, in either case
StartsWithAtCI(s, k, kw) ==
  /\ k + Len(kw) - 1 <= Len(s)
  /\ \A j \in 1..Len(kw) : ToLowerChar(Ch(s, k + j - 1)) = Ch(kw, j)

\* \s of a regular expression, and what String.prototype.trim removes
SpaceChars == {" ", "\t", "\n"}
\* \w
WordChars == LowerChars \cup UpperChars \cup DigitChars \cup {"_"}
DashChars == {"-"}

\* the first position at or after k whose character is not in the class
\* (Len(s) + 1 when there is none): the end of a greedy run c+
RECURSIVE SkipWhile(_, _, _)
SkipWhile(s, k, class) ==
  IF k > Len(s) THEN k
  ELSE IF Ch(s, k) \in class THEN SkipWhile(s, k + 1, class) ELSE k

\* the last position at or before k whose character is not in the class
\* (0 when there is none)
RECURSIVE SkipBackWhile(_, _, _)
SkipBackWhile(s, k, class) ==
  IF k < 1 THEN k
  ELSE IF Ch(s, k) \in class THEN SkipBackWhile(s, k - 1, class) ELSE k

\* the first position at or after k that holds the character c
\* (Len(s) + 1 when there is none)
RECURSIVE Find(_, _, _)
Find(s, k, c) ==
  IF k > Len(s) THEN k
  ELSE IF Ch(s, k) = c THEN k ELSE Find(s, k + 1, c)

StartsWithAt(s, k, kw) == Slice(s, k, k + Len(kw) - 1) = kw
StartsWith(s, kw) == StartsWithAt(s, 1, kw)
Includes(s, c) == \E k \in 1..Len(s) : StartsWithAt(s, k, c)

SeqIncludes(seq, x) == \E k \in 1..Len(seq) : seq[k] = x
Range(seq) == {seq[k] : k \in 1..Len(seq)}

-----------------------------------------------------------------------------
(* JavaScript values and plain objects *)

Null == [t |-> "null"]
Undefined == [t |-> "undefined"]
Fn == [t |-> "function"]
Str(v) == [t |-> "string", v |-> v]

\* ToBoolean
Truthy(x) ==
  CASE x.t = "string" -> x.v # ""
    [] x.t = "function" -> TRUE
    [] x.t = "object" -> TRUE
    [] OTHER -> FALSE

\* the names every plain object inherits from Object.prototype
OBJECT_PROTOTYPE ==
  {"constructor", "hasOwnProperty", "isPrototypeOf", "propertyIsEnumerable",
   "toLocaleString", "toString", "valueOf"}

\* Object.keys(obj)
Keys(obj) == [k \in 1..Len(obj) |-> obj[k].name]
HasKey(obj, key) == \E k \in 1..Len(obj) : obj[k].name = key
KeyIndex(obj, key) == CHOOSE k \in 1..Len(obj) : obj[k].name = key

\* scripts[key] on the raw script map: the command string, an inherited
\* function, or undefined
Get(obj, key) ==
  IF HasKey(obj, key) THEN Str(obj[KeyIndex(obj, key)].cmd)
  ELSE IF key \in OBJECT_PROTOTYPE THEN Fn
  ELSE Undefined

-----------------------------------------------------------------------------
(* Constants of the program *)

BUILTINS == <<"publish", "install", "uninstall", "test", "stop", "start", "restart", "version">>

SEP == ":"
PRE == "pre"
POST == "post"

\* [a-z0-9_:\-] under the i flag
NameChars == LowerChars \cup UpperChars \cup DigitChars \cup {"_", ":", "-"}
\* [a-z0-9_:\-\*] under the i flag
NamesChars == NameChars \cup {"*"}

-----------------------------------------------------------------------------
(* utils *)

RECURSIVE unique(_)
unique(array) ==
  IF array = <<>> THEN <<>>
  ELSE LET front == unique(SubSeq(array, 1, Len(array) - 1))
           last == array[Len(array)]
       IN IF SeqIncludes(front, last) THEN front ELSE Append(front, last)

RECURSIVE flatten(_)
flatten(arrays) ==
  IF arrays = <<>> THEN <<>> ELSE Head(arrays) \o flatten(Tail(arrays))

SelectSeqTruthy(array) == SelectSeq(array, LAMBDA x : x # "")

\* s.trim()
trim(s) == Slice(s, SkipWhile(s, 1, SpaceChars), SkipBackWhile(s, Len(s), SpaceChars))

\* s.split(" ")
RECURSIVE split(_, _)
split(s, sep) ==
  LET hit == Find(s, 1, sep)
  IN IF hit > Len(s) THEN <<s>>
     ELSE <<Slice(s, 1, hit - 1)>> \o split(Slice(s, hit + 1, Len(s)), sep)

\* s.replace(RE_COLON_OR_SLASH, m => SWAP_MAP[m])
RECURSIVE swapColonAndSlash(_)
swapColonAndSlash(s) ==
  IF s = "" THEN ""
  ELSE LET c == Ch(s, 1)
           d == IF c = ":" THEN "/" ELSE IF c = "/" THEN ":" ELSE c
       IN d \o swapColonAndSlash(SubSeq(s, 2, Len(s)))

-----------------------------------------------------------------------------
(* The two extraction rules *)

\* one attempt of /(?:npm run\s+([a-z0-9_:\-]+))+/gi at position k:
\* the keyword, a greedy run of spaces, a greedy name.  A second round of
\* the group cannot follow a greedy name, so m[1] is the first round's name.
RunAt(cmd, k) ==
  LET kw == "npm run"
      s1 == k + Len(kw)
      e1 == SkipWhile(cmd, s1, SpaceChars)
      e2 == SkipWhile(cmd, e1, NameChars)
  IN IF StartsWithAtCI(cmd, k, kw) /\ e1 > s1 /\ e2 > e1
     THEN [ok |-> TRUE, match |-> SubSeq(cmd, e1, e2 - 1), at |-> e1, end |-> e2]
     ELSE [ok |-> FALSE]

\* getMatches(re, cmd) for that expression, from lastIndex k - 1; each
\* element keeps where its name starts
RECURSIVE RunMatches(_, _)
RunMatches(cmd, k) ==
  IF k > Len(cmd) THEN <<>>
  ELSE LET m == RunAt(cmd, k)
       IN IF m.ok THEN <<[match |-> m.match, at |-> m.at]>> \o RunMatches(cmd, m.end)
          ELSE RunMatches(cmd, k + 1)

\* handled natively
getRunScripts(cmd) ==
  LET ms == RunMatches(cmd, 1)
  IN unique([k \in 1..Len(ms) |-> ms[k].match])

\* the ends of the greedy rounds of (?:\s+\-+\w+)* from position k: the
\* position itself (no round), then the end of each further round
RECURSIVE FlagEnds(_, _)
FlagEnds(cmd, k) ==
  LET e1 == SkipWhile(cmd, k, SpaceChars)
      e2 == SkipWhile(cmd, e1, DashChars)
      e3 == SkipWhile(cmd, e2, WordChars)
  IN IF e1 > k /\ e2 > e1 /\ e3 > e2 THEN <<k>> \o FlagEnds(cmd, e3) ELSE <<k>>

\* the end of the greedy ((?:\s+[a-z0-9_:\-\*]+)+) from position k, or k
\* itself when not even one round matches
RECURSIVE NamesEnd(_, _)
NamesEnd(cmd, k) ==
  LET e1 == SkipWhile(cmd, k, SpaceChars)
      e2 == SkipWhile(cmd, e1, NamesChars)
  IN IF e1 > k /\ e2 > e1 THEN NamesEnd(cmd, e2) ELSE k

\* one attempt of /(?:npm-run-all(?:\s+\-+\w+)*((?:\s+[a-z0-9_:\-\*]+)+))+/gi
\* at position k: the flags give rounds back until the names match
RunAllAt(cmd, k) ==
  LET kw == "npm-run-all"
      s1 == k + Len(kw)
      ends == FlagEnds(cmd, s1)
      good == {j \in 1..Len(ends) : NamesEnd(cmd, ends[j]) > ends[j]}
  IN IF StartsWithAtCI(cmd, k, kw) /\ good # {}
     THEN LET from == ends[CHOOSE j \in good : \A h \in good : h <= j]
              end == NamesEnd(cmd, from)
          IN [ok |-> TRUE, match |-> SubSeq(cmd, from, end - 1), at |-> from, end |-> end]
     ELSE [ok |-> FALSE]

RECURSIVE RunAllMatches(_, _)
RunAllMatches(cmd, k) ==
  IF k > Len(cmd) THEN <<>>
  ELSE LET m == RunAllAt(cmd, k)
       IN IF m.ok THEN <<[match |-> m.match, at |-> m.at]>> \o RunAllMatches(cmd, m.end)
          ELSE RunAllMatches(cmd, k + 1)

\* handled by npm-run-all module
getRunAllScripts(cmd) ==
  LET ms == RunAllMatches(cmd, 1)
      cmds == [k \in 1..Len(ms) |-> SelectSeqTruthy(split(trim(ms[k].match), " "))]
  IN unique(flatten(cmds))

-----------------------------------------------------------------------------
(* Lifecycle classifier *)

\* pre, post or builtins
isLifeCycleScript(prefix, name, map) ==
  LET root == Slice(name, Len(prefix) + 1, Len(name))
  IN StartsWith(name, prefix) /\ (Truthy(Get(map, root)) \/ SeqIncludes(BUILTINS, root))

-----------------------------------------------------------------------------
(* Wildcard expander *)

\* f.split(/\/+/): the parts between runs of slashes
RECURSIVE slashSplit(_)
slashSplit(f) ==
  LET hit == Find(f, 1, "/")
  IN IF hit > Len(f) THEN <<f>>
     ELSE <<Slice(f, 1, hit - 1)>> \o slashSplit(Slice(f, SkipWhile(f, hit, {"/"}), Len(f)))

\* the regular expression of one pattern part, on one file part: a letter
\* matches itself and each star is [^/]*?
RECURSIVE PartRegExp(_, _)
PartRegExp(f, p) ==
  IF p = "" THEN f = ""
  ELSE IF Ch(p, 1) = "*"
       THEN PartRegExp(f, Slice(p, 2, Len(p)))
            \/ (f # "" /\ PartRegExp(Slice(f, 2, Len(f)), p))
       ELSE f # "" /\ Ch(f, 1) = Ch(p, 1)
            /\ PartRegExp(Slice(f, 2, Len(f)), Slice(p, 2, Len(p)))

\* one file part against one pattern part that is not a globstar: a part
\* without magic is compared as a string; a part with magic matches no empty
\* part, and no part with a leading dot when it begins with the star
PartMatch(f, p) ==
  IF ~Includes(p, "*") THEN f = p
  ELSE /\ f # ""
       /\ (Ch(p, 1) = "*" => Ch(f, 1) # ".")
       /\ PartRegExp(f, p)

DotPart(f) == f # "" /\ Ch(f, 1) = "."

\* Minimatch.matchOne(file, pattern) without options: file and pattern are
\* the sequences of parts
RECURSIVE matchOne(_, _)
matchOne(file, pattern) ==
  IF file = <<>> \/ pattern = <<>>
  THEN IF file = <<>> /\ pattern = <<>> THEN TRUE
       ELSE IF file = <<>> THEN FALSE
       \* the pattern ran out: only a last empty part of the file may be left
       ELSE Len(file) = 1 /\ file[1] = ""
  ELSE IF pattern[1] = "**"
       THEN IF Len(pattern) = 1
            \* a globstar at the end swallows the rest, dot parts excepted
            THEN \A k \in 1..Len(file) : ~DotPart(file[k])
            ELSE \E fr \in 1..Len(file) :
                   /\ \A k \in 1..(fr - 1) : ~DotPart(file[k])
                   /\ matchOne(SubSeq(file, fr, Len(file)), Tail(pattern))
       ELSE PartMatch(file[1], pattern[1]) /\ matchOne(Tail(file), Tail(pattern))

\* minimatch(p, pattern) for a pattern made of letters, digits, dots,
\* underscores, hyphens, colons, slashes and stars
minimatch(f, pattern) ==
  IF trim(pattern) = "" THEN f = ""
  ELSE matchOne(slashSplit(f), slashSplit(trim(pattern)))

\* expandWildcard with the names handed to minimatch as they are, colons kept
expandWildcard_NoSwap(name, map) ==
  SelectSeq(Keys(map), LAMBDA x : minimatch(x, name))

\* test:* -> [test:lint, test:client]
\* test:** -> [test:lint, test:client, test:client:fx]
expandWildcard(name, map) ==
  LET n == swapColonAndSlash(name)
      keys == Keys(map)
      swapped == [k \in 1..Len(keys) |-> swapColonAndSlash(keys[k])]
      hits == SelectSeq(swapped, LAMBDA x : minimatch(x, n))
  IN [k \in 1..Len(hits) |-> swapColonAndSlash(hits[k])]

expandWildcards(names, map) ==
  flatten([k \in 1..Len(names) |-> expandWildcard(names[k], map)])

getExistingSubNames(names, map) ==
  SelectSeq(expandWildcards(names, map), LAMBDA n : Truthy(Get(map, n)))

\* extractSubNames with the two rules concatenated the other way round
extractSubNames_BatchFirst(cmd) ==
  unique(SelectSeqTruthy(getRunAllScripts(cmd) \o getRunScripts(cmd)))

\* the local subNames of getSubNames, made unique: what is handed to
\* getExistingSubNames
extractSubNames(cmd) ==
  unique(SelectSeqTruthy(getRunScripts(cmd) \o getRunAllScripts(cmd)))

getSubNames(name, map) ==
  LET cmd == Get(map, name).v
  IN getExistingSubNames(extractSubNames(cmd), map)

-----------------------------------------------------------------------------
(* Entries *)

\* scripts[n] on the map of entries: a reference to the entry object (the
\* entry is detailed[KeyIndex(detailed, n)]), an inherited function, or
\* undefined
GetEntry(map, n) ==
  IF HasKey(map, n) THEN [t |-> "object", name |-> n]
  ELSE IF n \in OBJECT_PROTOTYPE THEN Fn
  ELSE Undefined

\* add color formatting: the style of the name, then the dimmed command
getLabel(script) ==
  [style |-> IF script.isPre \/ script.isPost THEN "cyan"
             ELSE IF ~script.isSub THEN "bold" ELSE "plain",
   name |-> script.name,
   dim |-> script.cmd]

gatherAllSubNames(map) ==
  unique(flatten([k \in 1..Len(map) |-> map[k].subNames]))

\* the entry that the callback of getDetailedScripts builds for a name
DetailedEntry(name, map) ==
  [name |-> name,
   cmd |-> Get(map, name).v,
   isPre |-> isLifeCycleScript(PRE, name, map),
   isPost |-> isLifeCycleScript(POST, name, map),
   pre |-> Get(map, PRE \o name),
   post |-> Get(map, POST \o name),
   subNames |-> getSubNames(name, map)]

\* name.split(SEP).length - 1
explicitSubLevel(name) == Len(split(name, SEP)) - 1

\* AttachNodes with the hooks attached whether or not the script has them
AttachNodes_HooksUnguarded(s, map) ==
  LET own == [k \in 1..Len(s.subNames) |-> GetEntry(map, s.subNames[k])]
  IN <<GetEntry(map, PRE \o s.name)>> \o own \o <<GetEntry(map, POST \o s.name)>>

\* AttachNodes with the hooks looked up under the script's own name
AttachNodes_HooksUnprefixed(s, map) ==
  LET own == [k \in 1..Len(s.subNames) |-> GetEntry(map, s.subNames[k])]
      withPre == IF Truthy(s.pre) THEN <<GetEntry(map, s.name)>> \o own ELSE own
  IN IF Truthy(s.post) THEN Append(withPre, GetEntry(map, s.name)) ELSE withPre

\* the nodes that the callback of attachLabelAndNodes gives to entry s
AttachNodes(s, map) ==
  LET own == [k \in 1..Len(s.subNames) |-> GetEntry(map, s.subNames[k])]
      withPre == IF Truthy(s.pre) THEN <<GetEntry(map, PRE \o s.name)>> \o own ELSE own
  IN IF Truthy(s.post) THEN Append(withPre, GetEntry(map, POST \o s.name)) ELSE withPre

\* the entry s after the callback of attachLabelAndNodes ran on it
AttachedEntry(s, map) ==
  LET isSub == SeqIncludes(gatherAllSubNames(map), s.name)
      t == [name |-> s.name, cmd |-> s.cmd, isPre |-> s.isPre, isPost |-> s.isPost,
            pre |-> s.pre, post |-> s.post, subNames |-> s.subNames,
            isSub |-> isSub,
            isExplicitSub |-> isSub /\ Includes(s.name, SEP),
            explicitSubLevel |-> explicitSubLevel(s.name)]
  IN [name |-> t.name, cmd |-> t.cmd, isPre |-> t.isPre, isPost |-> t.isPost,
      pre |-> t.pre, post |-> t.post, subNames |-> t.subNames,
      isSub |-> t.isSub, isExplicitSub |-> t.isExplicitSub,
      explicitSubLevel |-> t.explicitSubLevel,
      label |-> getLabel(t),
      nodes |-> AttachNodes(s, map)]

\* 3rd pass: the keys that prune keeps
prune(map, keys) ==
  SelectSeq(keys, LAMBDA name :
    LET s == map[KeyIndex(map, name)]
    IN ~s.isPre /\ ~s.isPost /\ ~s.isExplicitSub)

\* a < b for strings, by UTF-16 code units, as Array.prototype.sort compares
RECURSIVE StrLess(_, _)
StrLess(a, b) ==
  IF b = "" THEN FALSE
  ELSE IF a = "" THEN TRUE
  ELSE LET ca == IndexIn(CODE_ORDER, Ch(a, 1))
           cb == IndexIn(CODE_ORDER, Ch(b, 1))
       IN IF ca # cb THEN ca < cb
          ELSE StrLess(Slice(a, 2, Len(a)), Slice(b, 2, Len(b)))

\* names.sort()
RECURSIVE sort(_)
sort(names) ==
  IF names = <<>> THEN <<>>
  ELSE LET least == CHOOSE x \in Range(names) : \A y \in Range(names) : ~StrLess(y, x)
       IN <<least>> \o sort(SelectSeq(names, LAMBDA x : x # least))

\* label and nodes
archify(map, keys, alpha) ==
  LET names == IF alpha THEN sort(keys) ELSE keys
  IN [label |-> [count |-> Len(names), text |-> " scripts"],
      nodes |-> [k \in 1..Len(names) |-> GetEntry(map, names[k])]]

-----------------------------------------------------------------------------
(* Inputs *)

\* how many scripts a script map holds at most
MaxScripts == 2

NAMES == {"build", "prebuild", "postbuild", "test:a", "prepublish"}

COMMANDS ==
  {"", "tsc", "npm run build", "npm-run-all -s test:a test:*",
   "npm run nope && npm run prebuild"}

\* the plain objects with at most max keys among names, each with a command
\* among cmds, in every key order
ScriptMaps(names, cmds, max) ==
  UNION {{m \in [1..n -> [name : names, cmd : cmds]] :
            \A a, b \in 1..n : a # b => m[a].name # m[b].name} : n \in 0..max}

Obj(map) == [t |-> "object", map |-> map]

-----------------------------------------------------------------------------
(* main *)

Idle ==
  /\ i = 0 /\ extracted = <<>> /\ detailed = <<>> /\ top = <<>>
  /\ tree = Undefined /\ fnArgs = <<>> /\ fnRet = Undefined

Init ==
  /\ scripts \in {Null, Undefined} \cup {Obj(m) : m \in ScriptMaps(NAMES, COMMANDS, MaxScripts)}
  /\ options \in [prune : BOOLEAN, alpha : BOOLEAN]
  /\ pc = "main"
  /\ Idle

\* MainThrow with an empty script map refused as well
MainThrow_OnEmpty ==
  /\ pc = "main" /\ (IF Truthy(scripts) THEN scripts.map = <<>> ELSE TRUE)
  /\ pc' = "thrown"
  /\ UNCHANGED <<scripts, options, i, extracted, detailed, top, tree, fnArgs, fnRet>>

\* if (!scripts) throw new Error(...)
MainThrow ==
  /\ pc = "main" /\ ~Truthy(scripts)
  /\ pc' = "thrown"
  /\ UNCHANGED <<scripts, options, i, extracted, detailed, top, tree, fnArgs, fnRet>>

MainEnter ==
  /\ pc = "main" /\ Truthy(scripts)
  /\ pc' = "getDetailedScripts" /\ i' = 1
  /\ UNCHANGED <<scripts, options, extracted, detailed, top, tree, fnArgs, fnRet>>

\* 1st pass: one call of the reduce callback
DetailCallback ==
  /\ pc = "getDetailedScripts" /\ i <= Len(scripts.map)
  /\ LET name == Keys(scripts.map)[i]
     IN /\ detailed' = Append(detailed, DetailedEntry(name, scripts.map))
        /\ extracted' = Append(extracted, extractSubNames(Get(scripts.map, name).v))
  /\ i' = i + 1
  /\ UNCHANGED <<scripts, options, pc, top, tree, fnArgs, fnRet>>

DetailReturn ==
  /\ pc = "getDetailedScripts" /\ i > Len(scripts.map)
  /\ pc' = "attachLabelAndNodes" /\ i' = 1
  /\ UNCHANGED <<scripts, options, extracted, detailed, top, tree, fnArgs, fnRet>>

\* 2nd pass: one call of the reduce callback, which changes the entry in place
AttachCallback ==
  /\ pc = "attachLabelAndNodes" /\ i <= Len(detailed)
  /\ detailed' = [detailed EXCEPT ![i] = AttachedEntry(detailed[i], detailed)]
  /\ i' = i + 1
  /\ UNCHANGED <<scripts, options, pc, extracted, top, tree, fnArgs, fnRet>>

AttachReturn ==
  /\ pc = "attachLabelAndNodes" /\ i > Len(detailed)
  /\ top' = Keys(detailed)
  /\ pc' = IF options.prune THEN "prune" ELSE "archify"
  /\ i' = 0
  /\ UNCHANGED <<scripts, options, extracted, detailed, tree, fnArgs, fnRet>>

Prune ==
  /\ pc = "prune"
  /\ top' = prune(detailed, top)
  /\ pc' = "archify"
  /\ UNCHANGED <<scripts, options, i, extracted, detailed, tree, fnArgs, fnRet>>

Archify ==
  /\ pc = "archify"
  /\ tree' = archify(detailed, top, options.alpha)
  /\ pc' = "done"
  /\ UNCHANGED <<scripts, options, i, extracted, detailed, top, fnArgs, fnRet>>

Next ==
  \/ MainThrow
  \/ MainEnter
  \/ DetailCallback
  \/ DetailReturn
  \/ AttachCallback
  \/ AttachReturn
  \/ Prune
  \/ Archify

Spec == Init /\ [][Next]_vars

-----------------------------------------------------------------------------
(* Direct calls of the exported functions *)

\* how many scripts the script map of a direct call holds at most
MaxKeys == 3

NoMain ==
  /\ scripts = Undefined /\ options = [prune |-> FALSE, alpha |-> FALSE]
  /\ i = 0 /\ extracted = <<>> /\ detailed = <<>> /\ top = <<>> /\ tree = Undefined

WILD_NAMES == {"test", "test:lint", "test:unit", "test:unit:fast", "test:.rc", "build"}
WILD_REFS == {"test:*", "test:**", "test:unit:*", "build", "lint"}

InitExpand ==
  /\ NoMain
  /\ pc = "expandWildcard"
  /\ fnArgs \in [name : WILD_REFS, scripts : ScriptMaps(WILD_NAMES, {"tsc"}, MaxKeys)]
  /\ fnRet = Undefined

CallExpandWildcard ==
  /\ pc = "expandWildcard"
  /\ fnRet' = expandWildcard(fnArgs.name, fnArgs.scripts)
  /\ pc' = "returned"
  /\ UNCHANGED <<scripts, options, i, extracted, detailed, top, tree, fnArgs>>

NextExpand == CallExpandWildcard

SpecExpand == InitExpand /\ [][NextExpand]_vars

LIFE_NAMES ==
  {"pre", "post", "build", "prebuild", "postbuild", "prepublish", "posttest", "prelint",
   "preconstructor"}

InitLifeCycle ==
  /\ NoMain
  /\ pc = "isLifeCycleScript"
  /\ fnArgs \in [prefix : {PRE, POST}, name : LIFE_NAMES,
                 scripts : ScriptMaps({"build", "prebuild", "lint"}, {"", "tsc"}, MaxKeys)]
  /\ fnRet = Undefined

CallIsLifeCycleScript ==
  /\ pc = "isLifeCycleScript"
  /\ fnRet' = isLifeCycleScript(fnArgs.prefix, fnArgs.name, fnArgs.scripts)
  /\ pc' = "returned"
  /\ UNCHANGED <<scripts, options, i, extracted, detailed, top, tree, fnArgs>>

NextLifeCycle == CallIsLifeCycleScript

SpecLifeCycle == InitLifeCycle /\ [][NextLifeCycle]_vars

SUB_NAMES == {"build", "clean", "test:a"}

SUB_COMMANDS ==
  {"", "tsc && echo done",
   "npm run build && npm run clean && npm run build",
   "npm-run-all -s clean build",
   "npm-run-all clean test:* build && npm run build",
   "NPM RUN test:a; npm-run-all --parallel test:a clean clean",
   "npm-run-all -s"}

InitSubNames ==
  /\ NoMain
  /\ pc = "getSubNames"
  /\ fnArgs \in {a \in [name : SUB_NAMES, scripts : ScriptMaps(SUB_NAMES, SUB_COMMANDS, MaxKeys)] :
                   HasKey(a.scripts, a.name)}
  /\ fnRet = Undefined

\* getSubNames(name, scripts); what it returns is kept together with its
\* local list of extracted names
CallGetSubNames ==
  /\ pc = "getSubNames"
  /\ fnRet' = [extracted |-> extractSubNames(Get(fnArgs.scripts, fnArgs.name).v),
               value |-> getSubNames(fnArgs.name, fnArgs.scripts)]
  /\ pc' = "returned"
  /\ UNCHANGED <<scripts, options, i, extracted, detailed, top, tree, fnArgs>>

NextSubNames == CallGetSubNames

SpecSubNames == InitSubNames /\ [][NextSubNames]_vars

-----------------------------------------------------------------------------
(* Vocabulary of the properties *)

\* the reduce of attachLabelAndNodes is over: every entry has its nodes
AfterPass2 == pc \in {"prune", "archify", "done"}

InputKeys == IF scripts.t = "object" THEN Range(Keys(scripts.map)) ELSE {}

NoDuplicates(seq) == \A a, b \in 1..Len(seq) : a # b => seq[a] # seq[b]

\* the links that follow the nodes of the entries
NodeEdges ==
  UNION {{<<detailed[k].name, detailed[k].nodes[j].name>> :
            j \in {h \in 1..Len(detailed[k].nodes) : detailed[k].nodes[h].t = "object"}} :
         k \in 1..Len(detailed)}

\* the references between scripts: N -> M when M is among N's subNames
ChildEdges ==
  UNION {{<<detailed[k].name, detailed[k].subNames[j]>> : j \in 1..Len(detailed[k].subNames)} :
         k \in 1..Len(detailed)}

\* the hooks of the input: N -> preN and N -> postN when those scripts exist
HookEdges ==
  {<<n, m>> \in InputKeys \X InputKeys : m = PRE \o n \/ m = POST \o n}

\* the pairs joined by a path of one edge or more
RECURSIVE Paths(_, _)
Paths(edges, rounds) ==
  IF rounds = 0 THEN edges
  ELSE LET more == edges \cup {<<p[1][1], p[2][2]>> : p \in {q \in edges \X edges : q[1][2] = q[2][1]}}
       IN IF more = edges THEN edges ELSE Paths(more, rounds - 1)

Reachable(edges) == Paths(edges, Cardinality(edges))

Cyclic(edges) == \E e \in Reachable(edges) : e[1] = e[2]

-----------------------------------------------------------------------------
(* Properties of main *)

\* C1: after pass 1 every name in an entry's subNames is a key of the input
\* script map, and after pass 2 every element of an entry's nodes is the
\* entry of a key of the input map, never undefined or another value.
C1_NoDanglingReference ==
  /\ \A k \in 1..Len(detailed) : Range(detailed[k].subNames) \subseteq InputKeys
  /\ AfterPass2 =>
       \A k \in 1..Len(detailed) : \A j \in 1..Len(detailed[k].nodes) :
         /\ detailed[k].nodes[j].t = "object"
         /\ detailed[k].nodes[j].name \in InputKeys

\* a finished run in which a command names a script that does not exist and
\* the entry still has nodes
C1_Witness ==
  /\ pc = "done"
  /\ \E k \in 1..Len(detailed) :
       /\ \E n \in Range(extracted[k]) : n \notin InputKeys
       /\ detailed[k].nodes # <<>>

\* C2 as stated: main throws, with no entry and no tree built, whenever the
\* script map is absent or empty, and builds a tree only for a map with at
\* least one script.
C2_ThrowsOnAbsentOrEmpty ==
  LET refused == ~Truthy(scripts) \/ scripts.map = <<>>
  IN /\ refused => pc \in {"main", "thrown"} /\ detailed = <<>> /\ tree = Undefined
     /\ ~refused => pc # "thrown"

\* C2 as amended: main throws, with no entry and no tree built, whenever the
\* script map is absent (null or undefined); an empty script map is not
\* refused, and main builds for it the tree of 0 scripts without nodes.
C2_ThrowsOnAbsent ==
  /\ ~Truthy(scripts) => pc \in {"main", "thrown"} /\ detailed = <<>> /\ tree = Undefined
  /\ Truthy(scripts) => pc # "thrown"
  /\ (pc = "done" /\ scripts.map = <<>>) =>
       tree.label.count = 0 /\ tree.nodes = <<>>

\* main has thrown on an absent script map
C2_Witness == pc = "thrown" /\ scripts = Null

\* C3 as stated: for every script N, if a script pre+N exists the first of
\* N's nodes is its entry, if a script post+N exists the last of N's nodes is
\* its entry, and the nodes in between are the entries of N's subNames in
\* their order.
C3_HooksFirstAndLast ==
  AfterPass2 =>
    \A k \in 1..Len(detailed) :
      LET e == detailed[k]
          hasPre == PRE \o e.name \in InputKeys
          hasPost == POST \o e.name \in InputKeys
          from == IF hasPre THEN 2 ELSE 1
          to == IF hasPost THEN Len(e.nodes) - 1 ELSE Len(e.nodes)
      IN /\ hasPre => e.nodes # <<>> /\ e.nodes[1] = [t |-> "object", name |-> PRE \o e.name]
         /\ hasPost => e.nodes # <<>>
                       /\ e.nodes[Len(e.nodes)] = [t |-> "object", name |-> POST \o e.name]
         /\ to - from + 1 = Len(e.subNames)
         /\ \A j \in 1..Len(e.subNames) :
              e.nodes[from + j - 1] = [t |-> "object", name |-> e.subNames[j]]

\* C6 as stated: no entry's subNames holds a name twice.
C6_SubNamesDistinct ==
  \A k \in 1..Len(detailed) : NoDuplicates(detailed[k].subNames)

\* C7 as stated: with the prune option on, every entry that prune removes
\* from the top level is reachable through nodes from an entry it keeps.
C7_PrunedStillReachable ==
  (pc \in {"archify", "done"} /\ options.prune) =>
    \A k \in 1..Len(detailed) :
      LET n == detailed[k].name
      IN ~SeqIncludes(top, n) =>
           \E r \in Range(top) : <<r, n>> \in Reachable(NodeEdges)

\* C9 as stated: after pass 2 an entry is a sub-script exactly when its name
\* is among the subNames of an entry other than itself, and an explicit
\* sub-script exactly when it is a sub-script whose name holds a colon.
C9_SubOfAnother ==
  AfterPass2 =>
    \A k \in 1..Len(detailed) :
      LET e == detailed[k]
      IN /\ e.isSub <=> \E h \in 1..Len(detailed) :
                          h # k /\ SeqIncludes(detailed[h].subNames, e.name)
         /\ e.isExplicitSub <=> (e.isSub /\ Includes(e.name, SEP))

\* C10 as stated: when the references between scripts (subNames) have no
\* cycle, no entry is reachable from itself through nodes.
C10_AcyclicChildren ==
  (AfterPass2 /\ ~Cyclic(ChildEdges)) => ~Cyclic(NodeEdges)

\* C10 as amended: when the references between scripts (subNames) taken
\* together with the hook links of the input (N to pre+N and N to post+N,
\* for the scripts that exist) have no cycle, no entry is reachable from
\* itself through nodes.
C10_AcyclicChildrenAndHooks ==
  (AfterPass2 /\ ~Cyclic(ChildEdges \cup HookEdges)) => ~Cyclic(NodeEdges)

\* a finished run without a cycle in which an entry has both a hook and a
\* referenced script among its nodes
C10_Witness ==
  /\ pc = "done"
  /\ ~Cyclic(ChildEdges \cup HookEdges)
  /\ \E k \in 1..Len(detailed) :
       /\ Truthy(detailed[k].pre)
       /\ detailed[k].subNames # <<>>
       /\ Len(detailed[k].nodes) = Len(detailed[k].subNames) + 1

-----------------------------------------------------------------------------
(* Properties of the exported functions *)

EndsWith(s, tail) == Len(s) >= Len(tail) /\ Slice(s, Len(s) - Len(tail) + 1, Len(s)) = tail
DropLast(s, n) == Slice(s, 1, Len(s) - n)

\* key is P:S with S one segment, not empty and without a colon
OneSegmentUnder(P, key) ==
  LET S == Slice(key, Len(P) + 2, Len(key))
  IN StartsWith(key, P \o SEP) /\ S # "" /\ ~Includes(S, SEP)

\* key begins with P:
AnyDepthUnder(P, key) == StartsWith(key, P \o SEP)

\* no segment of key after the prefix P: begins with a dot
NoDotSegmentUnder(P, key) ==
  LET segments == split(Slice(key, Len(P) + 2, Len(key)), SEP)
  IN \A k \in 1..Len(segments) : ~StartsWith(segments[k], ".")

\* C4 as stated: P:* yields the script names P:S with S one segment, P:**
\* yields the script names that begin with P: at any depth, both in the order
\* of the script map, and a reference without a wildcard yields only itself.
C4_ExpandAsStated ==
  pc = "returned" =>
    LET name == fnArgs.name
        keys == Keys(fnArgs.scripts)
    IN IF EndsWith(name, ":**")
       THEN fnRet = SelectSeq(keys, LAMBDA x : AnyDepthUnder(DropLast(name, 3), x))
       ELSE IF EndsWith(name, ":*")
       THEN fnRet = SelectSeq(keys, LAMBDA x : OneSegmentUnder(DropLast(name, 2), x))
       ELSE fnRet = <<name>>

\* C4 as amended: for script names made of segments that are not empty, of
\* letters, digits, underscores, hyphens and dots, P:* yields the script
\* names P:S with S one segment that does not begin with a dot, P:** yields the script names that begin with P: and have no
\* segment after it that begins with a dot, both in the order of the script
\* map, and a reference without a wildcard yields itself when it is a script
\* name and nothing when it is not.
C4_ExpandAmended ==
  pc = "returned" =>
    LET name == fnArgs.name
        keys == Keys(fnArgs.scripts)
    IN IF EndsWith(name, ":**")
       THEN fnRet = SelectSeq(keys, LAMBDA x :
                      AnyDepthUnder(DropLast(name, 3), x)
                      /\ NoDotSegmentUnder(DropLast(name, 3), x))
       ELSE IF EndsWith(name, ":*")
       THEN fnRet = SelectSeq(keys, LAMBDA x :
                      OneSegmentUnder(DropLast(name, 2), x)
                      /\ NoDotSegmentUnder(DropLast(name, 2), x))
       ELSE fnRet = IF HasKey(fnArgs.scripts, name) THEN <<name>> ELSE <<>>

\* test:* has returned two names in the order of the map and has left a
\* deeper name out
C4_Witness ==
  /\ pc = "returned"
  /\ fnArgs.name = "test:*"
  /\ Keys(fnArgs.scripts) = <<"test:unit", "test:unit:fast", "test:lint">>
  /\ fnRet = <<"test:unit", "test:lint">>

\* C5 as stated: isLifeCycleScript(prefix, name, scripts) is true exactly
\* when name starts with prefix and the rest of name is a key of the script
\* map or a built-in; a name equal to the prefix is never a lifecycle script.
C5_LifeCycleIffKeyOrBuiltin ==
  pc = "returned" =>
    LET root == Slice(fnArgs.name, Len(fnArgs.prefix) + 1, Len(fnArgs.name))
    IN /\ fnRet <=> /\ StartsWith(fnArgs.name, fnArgs.prefix)
                    /\ (HasKey(fnArgs.scripts, root) \/ root \in Range(BUILTINS))
       /\ fnArgs.name = fnArgs.prefix => ~fnRet

\* the names of the direct invocations of a command, in the order of the text
DirectOccurrences(cmd) ==
  LET ms == RunMatches(cmd, 1) IN [k \in 1..Len(ms) |-> ms[k].match]

\* the names of the batch invocations of a command, in the order of the text
BatchOccurrences(cmd) ==
  LET ms == RunAllMatches(cmd, 1)
  IN flatten([k \in 1..Len(ms) |-> SelectSeq(split(trim(ms[k].match), " "), LAMBDA x : x # "")])

\* a list with only the first occurrence of each element kept
RECURSIVE FirstOccurrences(_)
FirstOccurrences(seq) ==
  IF seq = <<>> THEN <<>>
  ELSE <<Head(seq)>> \o FirstOccurrences(SelectSeq(Tail(seq), LAMBDA x : x # Head(seq)))

ContainsCI(s, kw) == \E k \in 1..Len(s) : StartsWithAtCI(s, k, kw)

\* C8: the names extracted from a command are the names of its direct
\* invocations in order of first occurrence, then the names of its batch
\* invocations not yet listed in order of first occurrence, each name once;
\* a command with neither idiom yields the empty list.
C8_DirectThenBatch ==
  pc = "returned" =>
    LET cmd == Get(fnArgs.scripts, fnArgs.name).v
        direct == FirstOccurrences(DirectOccurrences(cmd))
        batch == FirstOccurrences(BatchOccurrences(cmd))
    IN /\ fnRet.extracted = direct \o SelectSeq(batch, LAMBDA x : x \notin Range(direct))
       /\ NoDuplicates(fnRet.extracted)
       /\ (~ContainsCI(cmd, "npm run") /\ ~ContainsCI(cmd, "npm-run-all")) =>
            fnRet.extracted = <<>>

\* a command whose batch invocation stands before its direct invocation and
\* shares a name with it: the direct name comes first, the others follow
C8_Witness ==
  /\ pc = "returned"
  /\ LET cmd == Get(fnArgs.scripts, fnArgs.name).v
     IN /\ RunMatches(cmd, 1) # <<>> /\ RunAllMatches(cmd, 1) # <<>>
        /\ RunAllMatches(cmd, 1)[1].at < RunMatches(cmd, 1)[1].at
        /\ fnRet.extracted = <<"build", "clean", "test:*">>

====
